---------------------------- MODULE Spec2Model ----------------------------
(***************************************************************************)
(* A model of src/main.py (fill-the-drive): the buffer factory, the bounded *)
(* continuous write loop, the contiguous filler with its disk-usage        *)
(* monitor thread, the throughput benchmark, and the validation / dispatch *)
(* done by main.                                                           *)
(*                                                                         *)
(* The main thread's position is pc; the monitor thread's position is      *)
(* monPc.  Sizes are in KiB: every buffer the program builds is a whole     *)
(* number of blocks of 1024 bytes (lines 77-80), the slices of the filler  *)
(* are 1 MiB, and the free space of a volume is taken in whole KiB too.    *)
(* Times are in abstract clock units.  time.time() is modelled as a clock  *)
(* that never goes back: every read returns the previous reading plus a    *)
(* tick that may be zero (a coarse clock).                                 *)
(***************************************************************************)
EXTENDS Integers, Sequences, FiniteSets, TLC

(***************************************************************************)
(* Bounds of the model.                                                    *)
(***************************************************************************)
\* largest duration / iteration bound handed to the writer
MaxDuration == 2
MaxIterations == 2
\* largest advance of the clock between two reads
MaxTick == 2
\* the clock reads the same value at most this many writes in a row
MaxStall == 2
\* buffer sizes go up to MaxBufHalfMb half-MiB, free space up to MaxFreeHalfMb
MaxBufHalfMb == 4
MaxFreeHalfMb == 7
\* bytes another process may take from the volume during a fill, in half-MiB
MaxOtherHalfMb == 1
\* the coarse loop is given room for at most MaxCoarse buffers
MaxCoarse == 2
\* the counters of writes stop counting at MaxCount
MaxCount == 3
\* the buffer factory is asked for up to MaxBlocks blocks, and its random block
\* is one of MaxSeed + 1 sample blocks
MaxBlocks == 3
MaxSeed == 3
\* during a benchmark the clock advances by the same amount at every read of a
\* measurement, at most MaxPace; the amount changes between two measurements
\* at most MaxPaceChanges times
MaxPace == 3
MaxPaceChanges == 1

(***************************************************************************)
(* Program constants.                                                      *)
(***************************************************************************)
OPERATIONS == {"perf", "fill", "perf+fill", "loop"}
FILL == -1
DURATION == 5
ITERATIONS == 10
SIZE == 1
\* the bytes of a block of create_bytearray_killobytes, the unit of all sizes
KiB == 1024
\* 1024**2 bytes, in KiB
one_mb_bytes == (1024 * 1024) \div KiB
HalfMb == one_mb_bytes \div 2
\* the monitor sleeps range(100) times 1/100 s between two probes
SleepSlices == 100

VARIABLES
    pc,               \* position of the main thread
    exc,              \* the exception propagating out of the call, or "none"
    caller,           \* who called the running function: "none", "main" or "perf"
    args,             \* main: the parsed command line (argparse namespace)
    dirsCreated,      \* validate_kwargs reached os.makedirs for the output paths
    fileTouched,      \* the data file has been created, truncated or written
    \* write_byte_array_continuously
    byte_array_bytes, \* len(byte_array)
    duration, iterations,
    now,              \* last value returned by time.time()
    start, end, iteration,
    fileSize,         \* size of the data file
    original_size, bytes_written, elapsed,
    writes,           \* number of wb.write calls that returned
    sizeBefore,       \* size of the data file when the call began
    \* write_byte_array_contiguously
    free,             \* free space on the volume (psutil.disk_usage(drive).free)
    otherBudget,      \* half-MiB other processes may still take from the volume
    lastFree,         \* the free space returned by the filler's last probe
    i,                \* index of the fine-write loop
    pending,          \* exception raised in the try body, not yet handled
    how,              \* how the try statement was left
    coarseWrites, fineWrites,
    fineBroke,        \* the fine loop took its break
    \* the monitor thread
    event,            \* threading.Event: set or not
    monPc,            \* position of disk_usage_monitor
    sleepI,           \* index of the monitor's sleep loop
    monObserved,      \* the monitor has read the event as set
    lateProbe,        \* the monitor probed after it read the event as set
    probeErrors,      \* a probe of the monitor raised
    \* create_bytearray_killobytes
    count, fill,      \* its arguments
    killobyte,        \* the block of 1024 bytes
    killobytes_array, \* the buffer being built
    copies,           \* passes of the for loop made so far
    \* create_byte_array_high_throughput
    rows,             \* the rows of the performance table
    sweetspot_bytearray,   \* len of the winning buffer (0: the empty bytearray())
    sweetspot_killobytes, sweetspot_rate,
    idx,              \* position of the for loop in the sorted killobytes_list
    killobytes,       \* the candidate being measured
    pace,             \* ticks of the clock per read, 0: any (see Ticks)
    paceChanges,      \* changes of pace made so far
    perfCaller        \* who called create_byte_array_high_throughput

wcVars == <<byte_array_bytes, duration, iterations, now, start, end, iteration,
            fileSize, original_size, bytes_written, elapsed, writes, sizeBefore>>
mainVars == <<args, dirsCreated>>
fillVars == <<free, otherBudget, lastFree, i, pending, how, coarseWrites,
              fineWrites, fineBroke, event, monPc, sleepI, monObserved, lateProbe,
              probeErrors>>
bufVars == <<count, fill, killobyte, killobytes_array, copies>>
perfVars == <<rows, sweetspot_bytearray, sweetspot_killobytes, sweetspot_rate, idx,
              killobytes, pace, paceChanges, perfCaller>>
vars == <<pc, exc, caller, fileTouched, wcVars, mainVars, fillVars, bufVars, perfVars>>

NoArgs == [operation |-> "none", fill |-> FILL, size |-> SIZE,
           duration |-> DURATION, iterations |-> ITERATIONS]

(***************************************************************************)
(* validate_kwargs: the exception it raises for the given arguments, or    *)
(* "none" when it goes on to create the output directories.  log_level is  *)
(* restricted by argparse choices and always valid.                        *)
(***************************************************************************)
FillRejected(f) == f < 0 /\ 255 < f

validate_kwargs(operation, f, size, dur, iters) ==
    IF operation \notin OPERATIONS THEN "KeyError"
    ELSE IF size < 1 THEN "ValueError"
    ELSE IF f # -1 /\ FillRejected(f) THEN "ValueError"
    ELSE IF dur < 0 THEN "ValueError"
    ELSE IF iters < 0 THEN "ValueError"
    ELSE "none"

\* the filler's and the monitor's variables before write_byte_array_contiguously
FillIdle ==
    /\ free = 0 /\ otherBudget = 0 /\ lastFree = 0 /\ i = 0
    /\ pending = "none" /\ how = "none"
    /\ coarseWrites = 0 /\ fineWrites = 0 /\ fineBroke = FALSE
    /\ event = FALSE /\ monPc = "not_started" /\ sleepI = 0
    /\ monObserved = FALSE /\ lateProbe = FALSE /\ probeErrors = FALSE

\* the variables of create_bytearray_killobytes before it is called
BufIdle ==
    /\ count = 0 /\ fill = FILL /\ killobyte = <<>> /\ killobytes_array = <<>>
    /\ copies = 0

\* the variables of create_byte_array_high_throughput before it is called; the
\* clock is not paced
PerfIdle ==
    /\ rows = <<>> /\ sweetspot_bytearray = 0 /\ sweetspot_killobytes = 0
    /\ sweetspot_rate = <<0, 1>> /\ idx = 0 /\ killobytes = 0
    /\ pace = 0 /\ paceChanges = 0 /\ perfCaller = "none"

(***************************************************************************)
(* write_byte_array_continuously                                           *)
(***************************************************************************)
\* the while condition of line 143, on the elapsed time just read
LoopContinuesAnd(t, dur, it, iters) == t < dur /\ it < iters

LoopContinues(t, dur, it, iters) == t < dur \/ it < iters

\* the ticks the clock may advance by at the next read
Ticks == IF iteration >= MaxStall THEN 1..MaxTick ELSE 0..MaxTick

\* the ticks of a read that may advance by any of S: during a benchmark the
\* clock advances by pace
ClockTicks(S) == IF pace = 0 THEN S ELSE {pace}

\* a function returns normally to its caller
Return == pc' = IF caller = "main" THEN "main_done"
                ELSE IF caller = "perf" THEN "perf_rate" ELSE "returned"

\* line 135: validate_kwargs(data_filepath, duration, iterations)
WcValidate ==
    /\ pc = "wc_validate"
    /\ LET e == validate_kwargs("perf", FILL, SIZE, duration, iterations) IN
         IF e = "none"
         THEN pc' = "wc_truncate" /\ dirsCreated' = TRUE /\ exc' = exc
         ELSE pc' = "raised" /\ exc' = e /\ dirsCreated' = dirsCreated
    /\ UNCHANGED <<bufVars, perfVars, fillVars, caller, args, fileTouched, wcVars>>

\* a slip of lines 137-139: the size is taken without truncating first
WcTruncateKeep ==
    /\ pc = "wc_truncate"
    /\ original_size' = fileSize
    /\ fileTouched' = TRUE
    /\ pc' = "wc_open"
    /\ UNCHANGED <<bufVars, perfVars, fillVars, exc, caller, mainVars, byte_array_bytes, duration, iterations,
                   now, start, end, iteration, bytes_written, elapsed, writes,
                   sizeBefore, fileSize>>

\* lines 137-139: truncate or create the file, then take its size
WcTruncate ==
    /\ pc = "wc_truncate"
    /\ fileSize' = 0
    /\ original_size' = fileSize'
    /\ fileTouched' = TRUE
    /\ pc' = "wc_open"
    /\ UNCHANGED <<bufVars, perfVars, fillVars, exc, caller, mainVars, byte_array_bytes, duration, iterations,
                   now, start, end, iteration, bytes_written, elapsed, writes,
                   sizeBefore>>

\* lines 140-142: open for writing (truncates), start = time.time(), iteration = 0
WcOpen ==
    /\ pc = "wc_open"
    /\ fileSize' = 0
    /\ \E t \in ClockTicks(0..MaxTick) : now' = now + t
    /\ start' = now'
    /\ iteration' = 0
    /\ pc' = "wc_cond"
    /\ UNCHANGED <<bufVars, perfVars, fillVars, exc, caller, fileTouched, mainVars, byte_array_bytes, duration,
                   iterations, end, original_size, bytes_written, elapsed, writes,
                   sizeBefore>>

\* line 143: read the clock and test the loop condition
WcCond ==
    /\ pc = "wc_cond"
    /\ \E t \in ClockTicks(Ticks) : now' = now + t
    /\ pc' = IF LoopContinues(now' - start, duration, iteration, iterations)
             THEN "wc_write" ELSE "wc_end"
    /\ UNCHANGED <<bufVars, perfVars, fillVars, exc, caller, fileTouched, mainVars, byte_array_bytes, duration,
                   iterations, start, end, iteration, fileSize, original_size,
                   bytes_written, elapsed, writes, sizeBefore>>

\* lines 144-145: wb.write(byte_array); iteration += 1.  The write may raise
\* OSError (disk full), which leaves the function.
WcWrite ==
    /\ pc = "wc_write"
    /\ \/ /\ fileSize' = fileSize + byte_array_bytes
          /\ iteration' = iteration + 1
          /\ writes' = writes + 1
          /\ pc' = "wc_cond"
          /\ exc' = exc
       \/ /\ pc' = "raised"
          /\ exc' = "OSError"
          /\ UNCHANGED <<fillVars, fileSize, iteration, writes>>
    /\ UNCHANGED <<bufVars, perfVars, fillVars, caller, fileTouched, mainVars, byte_array_bytes, duration,
                   iterations, now, start, end, original_size, bytes_written, elapsed,
                   sizeBefore>>

\* line 146: end = time.time(), then the file is closed
WcEnd ==
    /\ pc = "wc_end"
    /\ \E t \in ClockTicks(0..MaxTick) : now' = now + t
    /\ end' = now'
    /\ pc' = "wc_result"
    /\ UNCHANGED <<bufVars, perfVars, fillVars, exc, caller, fileTouched, mainVars, byte_array_bytes, duration,
                   iterations, start, iteration, fileSize, original_size,
                   bytes_written, elapsed, writes, sizeBefore>>

\* lines 147-151: the size delta, the elapsed time, the throughput (a division
\* by elapsed) and the return
WcResult ==
    /\ pc = "wc_result"
    /\ bytes_written' = fileSize - original_size
    /\ elapsed' = end - start
    /\ IF elapsed' = 0
       THEN pc' = "raised" /\ exc' = "ZeroDivisionError"
       ELSE Return /\ exc' = exc
    /\ UNCHANGED <<bufVars, perfVars, fillVars, caller, fileTouched, mainVars, byte_array_bytes, duration,
                   iterations, now, start, end, iteration, fileSize, original_size,
                   writes, sizeBefore>>

NextLoop == WcValidate \/ WcTruncate \/ WcOpen \/ WcCond \/ WcWrite \/ WcEnd \/ WcResult

\* buffer lengths: create_bytearray_killobytes(count) has count * 1024 bytes
Counts == {0, 1} \cup {512 * k : k \in 1..MaxBufHalfMb}
BufferLengths == {(1024 * c) \div KiB : c \in Counts}

InitLoop ==
    /\ BufIdle /\ PerfIdle
    /\ pc = "wc_validate"
    /\ exc = "none"
    /\ caller = "none"
    /\ args = NoArgs
    /\ dirsCreated = FALSE
    /\ fileTouched = FALSE
    /\ byte_array_bytes \in BufferLengths
    /\ duration \in -1..MaxDuration
    /\ iterations \in -1..MaxIterations
    /\ now = 0 /\ start = 0 /\ end = 0 /\ iteration = 0
    /\ fileSize \in {0, 1024 \div KiB}
    /\ sizeBefore = fileSize
    /\ original_size = 0 /\ bytes_written = 0 /\ elapsed = 0
    /\ writes = 0
    /\ FillIdle

SpecLoop == InitLoop /\ [][NextLoop]_vars

(***************************************************************************)
(* write_byte_array_contiguously and the volume it fills                   *)
(***************************************************************************)
fillerLocals == <<lastFree, i, pending, how, coarseWrites, fineWrites, fineBroke>>
monVars == <<monPc, sleepI, monObserved, lateProbe, probeErrors>>
wcLocals == <<duration, iterations, now, start, end, iteration, original_size,
              bytes_written, elapsed, writes, sizeBefore>>

\* the exceptions a step of the try body (lines 172-182) may raise
TryExceptions == {"KeyboardInterrupt", "OSError", "Other"}

\* a counter of the model that stops at MaxCount
Sat(n) == IF n < MaxCount THEN n + 1 ELSE n

\* line 173: the condition of the coarse loop
CoarseFitsOrEqual(f, n) == f >= n

CoarseFitsLate(f, n) == f > n + one_mb_bytes

CoarseFits(f, n) == f > n

\* line 178: the condition of a fine write
FineFits(f) == f > one_mb_bytes

\* line 177: the position after the for statement has taken index k
FineNext(k) == IF k < byte_array_bytes \div one_mb_bytes
               THEN "fill_fine_check" ELSE "fill_finally"

\* a step of the try body raises x: control goes to the except clauses
Raise(x) == pending' = x /\ pc' = "fill_except"

\* a write of length n is cut short by OSError: a write that cannot fit may have
\* used up what was left
FailedWrite(n) ==
    /\ Raise("OSError")
    /\ free' \in (IF n > free THEN {free, 0} ELSE {free})

\* line 161: validate_kwargs(data_filepath=data_filepath)
FillValidate ==
    /\ pc = "fill_validate"
    /\ LET e == validate_kwargs("perf", FILL, SIZE, DURATION, ITERATIONS) IN
         IF e = "none"
         THEN pc' = "fill_start" /\ dirsCreated' = TRUE /\ exc' = exc
         ELSE pc' = "raised" /\ exc' = e /\ dirsCreated' = dirsCreated
    /\ UNCHANGED <<bufVars, perfVars, caller, args, fileTouched, wcVars, fillVars>>

\* lines 164-170: create the event and start the monitor thread; Thread.start
\* may fail (RuntimeError), which leaves the function before the try
FillStart ==
    /\ pc = "fill_start"
    /\ event' = FALSE
    /\ \/ monPc' = "while" /\ pc' = "fill_open_coarse" /\ exc' = exc
       \/ monPc' = monPc /\ pc' = "raised" /\ exc' = "Other"
    /\ UNCHANGED <<bufVars, perfVars, caller, args, dirsCreated, fileTouched, wcVars, free,
                   otherBudget, fillerLocals, sleepI, monObserved, lateProbe,
                   probeErrors>>

\* line 172: open the data file for appending
FillOpenCoarse ==
    /\ pc = "fill_open_coarse"
    /\ \/ fileTouched' = TRUE /\ pc' = "fill_coarse_check" /\ pending' = pending
       \/ \E x \in TryExceptions : Raise(x) /\ fileTouched' = fileTouched
    /\ UNCHANGED <<bufVars, perfVars, exc, caller, args, dirsCreated, wcVars, free, otherBudget,
                   lastFree, i, how, coarseWrites, fineWrites, fineBroke, event,
                   monVars>>

\* line 173: probe the free space and test the coarse condition; leaving the
\* loop closes the file
FillCoarseCheck ==
    /\ pc = "fill_coarse_check"
    /\ \/ /\ lastFree' = free
          /\ pc' = IF CoarseFits(free, byte_array_bytes)
                   THEN "fill_coarse_write" ELSE "fill_open_fine"
          /\ pending' = pending
       \/ \E x \in TryExceptions : Raise(x) /\ lastFree' = lastFree
    /\ UNCHANGED <<bufVars, perfVars, exc, caller, args, dirsCreated, fileTouched, wcVars, free,
                   otherBudget, i, how, coarseWrites, fineWrites, fineBroke, event,
                   monVars>>

\* line 174: wb.write(byte_array)
FillCoarseWrite ==
    /\ pc = "fill_coarse_write"
    /\ \/ /\ byte_array_bytes <= free
          /\ free' = free - byte_array_bytes
          /\ fileSize' = fileSize + byte_array_bytes
          /\ coarseWrites' = Sat(coarseWrites)
          /\ pc' = "fill_coarse_check"
          /\ pending' = pending
       \/ FailedWrite(byte_array_bytes) /\ UNCHANGED <<fileSize, coarseWrites>>
       \/ /\ \E x \in {"KeyboardInterrupt", "Other"} : Raise(x)
          /\ UNCHANGED <<free, fileSize, coarseWrites>>
    /\ UNCHANGED <<bufVars, perfVars, exc, caller, args, dirsCreated, fileTouched, byte_array_bytes,
                   wcLocals, otherBudget, lastFree, i, how, fineWrites, fineBroke,
                   event, monVars>>

\* lines 176-177: open the file again and enter the for loop over the slices
FillOpenFine ==
    /\ pc = "fill_open_fine"
    /\ \/ /\ i' = 0
          /\ pc' = FineNext(0)
          /\ how' = IF pc' = "fill_finally" THEN "normal" ELSE how
          /\ pending' = pending
       \/ \E x \in TryExceptions : Raise(x) /\ UNCHANGED <<i, how>>
    /\ UNCHANGED <<bufVars, perfVars, exc, caller, args, dirsCreated, fileTouched, wcVars, free,
                   otherBudget, lastFree, coarseWrites, fineWrites, fineBroke,
                   event, monVars>>

\* lines 178, 181-182: probe the free space; write the slice if it fits, else break
FillFineCheck ==
    /\ pc = "fill_fine_check"
    /\ \/ /\ lastFree' = free
          /\ IF FineFits(free)
             THEN pc' = "fill_fine_write" /\ UNCHANGED <<how, fineBroke>>
             ELSE pc' = "fill_finally" /\ how' = "normal" /\ fineBroke' = TRUE
          /\ pending' = pending
       \/ \E x \in TryExceptions : Raise(x) /\ UNCHANGED <<lastFree, how, fineBroke>>
    /\ UNCHANGED <<bufVars, perfVars, exc, caller, args, dirsCreated, fileTouched, wcVars, free,
                   otherBudget, i, coarseWrites, fineWrites, event, monVars>>

\* lines 179-180: write the slice i, of 1 MiB, and go on with the loop
FillFineWrite ==
    /\ pc = "fill_fine_write"
    /\ \/ /\ one_mb_bytes <= free
          /\ free' = free - one_mb_bytes
          /\ fileSize' = fileSize + one_mb_bytes
          /\ fineWrites' = Sat(fineWrites)
          /\ i' = i + 1
          /\ pc' = FineNext(i + 1)
          /\ how' = IF pc' = "fill_finally" THEN "normal" ELSE how
          /\ pending' = pending
       \/ FailedWrite(one_mb_bytes) /\ UNCHANGED <<fileSize, fineWrites, i, how>>
       \/ /\ \E x \in {"KeyboardInterrupt", "Other"} : Raise(x)
          /\ UNCHANGED <<free, fileSize, fineWrites, i, how>>
    /\ UNCHANGED <<bufVars, perfVars, exc, caller, args, dirsCreated, fileTouched, byte_array_bytes,
                   wcLocals, otherBudget, lastFree, coarseWrites, fineBroke, event,
                   monVars>>

\* lines 183-186: KeyboardInterrupt and OSError are caught and logged; any other
\* exception stays pending
FillExcept ==
    /\ pc = "fill_except"
    /\ how' = pending
    /\ pending' = IF pending \in {"KeyboardInterrupt", "OSError"} THEN "none" ELSE pending
    /\ pc' = "fill_finally"
    /\ UNCHANGED <<bufVars, perfVars, exc, caller, args, dirsCreated, fileTouched, wcVars, free,
                   otherBudget, lastFree, i, coarseWrites, fineWrites, fineBroke,
                   event, monVars>>

\* a slip of lines 187-188: the event is set only when nothing is pending
FillFinallyNoSet ==
    /\ pc = "fill_finally"
    /\ event' = (pending = "none")
    /\ IF pending = "none"
       THEN pc' = "fill_after" /\ exc' = exc
       ELSE pc' = "raised" /\ exc' = pending
    /\ UNCHANGED <<bufVars, perfVars, caller, args, dirsCreated, fileTouched, wcVars, free,
                   otherBudget, fillerLocals, monVars>>

\* lines 187-188: finally: event.set(); a pending exception then leaves the function
FillFinally ==
    /\ pc = "fill_finally"
    /\ event' = TRUE
    /\ IF pending = "none"
       THEN pc' = "fill_after" /\ exc' = exc
       ELSE pc' = "raised" /\ exc' = pending
    /\ UNCHANGED <<bufVars, perfVars, caller, args, dirsCreated, fileTouched, wcVars, free,
                   otherBudget, fillerLocals, monVars>>

\* a slip of lines 189-190: the event is cleared once the try is over
FillAfterClears ==
    /\ pc = "fill_after"
    /\ \/ Return /\ exc' = exc
       \/ pc' = "raised" /\ exc' = "OSError"
    /\ event' = FALSE
    /\ UNCHANGED <<bufVars, perfVars, caller, args, dirsCreated, fileTouched, wcVars, free,
                   otherBudget, fillerLocals, monVars>>

\* lines 189-190: a last probe for the debug log, then the return
FillAfter ==
    /\ pc = "fill_after"
    /\ \/ Return /\ exc' = exc
       \/ pc' = "raised" /\ exc' = "OSError"
    /\ UNCHANGED <<bufVars, perfVars, caller, args, dirsCreated, fileTouched, wcVars, fillVars>>

\* the filler is between the start of the monitor and the end of its try statement
FillRunning == pc \in {"fill_open_coarse", "fill_coarse_check", "fill_coarse_write",
                       "fill_open_fine", "fill_fine_check", "fill_fine_write"}

\* another process takes half a MiB from the volume while the filler runs
OtherProcess ==
    /\ FillRunning
    /\ otherBudget > 0
    /\ free >= HalfMb
    /\ free' = free - HalfMb
    /\ otherBudget' = otherBudget - 1
    /\ UNCHANGED <<bufVars, perfVars, pc, exc, caller, args, dirsCreated, fileTouched, wcVars,
                   fillerLocals, event, monVars>>

(***************************************************************************)
(* disk_usage_monitor, on its own thread                                   *)
(***************************************************************************)
\* the thread is a daemon (line 169): it ends with the process, that is when main
\* has returned or an exception has left main
ProcessAlive == pc # "exited" /\ ~(caller = "main" /\ pc = "raised")

monFrame == <<pc, exc, caller, args, dirsCreated, fileTouched, wcVars, free,
              otherBudget, fillerLocals, event>>

\* line 86: while not event.is_set()
MonWhile ==
    /\ ProcessAlive
    /\ monPc = "while"
    /\ monPc' = IF event THEN "exited" ELSE "probe"
    /\ monObserved' = (monObserved \/ event)
    /\ UNCHANGED <<bufVars, perfVars, monFrame, sleepI, lateProbe, probeErrors>>

\* lines 87-89: psutil.disk_usage(drive) and the log record, then the for loop
\* begins; an OSError of the probe is not handled and ends the thread
MonProbe ==
    /\ ProcessAlive
    /\ monPc = "probe"
    /\ \/ monPc' = "sleep" /\ sleepI' = 0 /\ probeErrors' = probeErrors
       \/ monPc' = "crashed" /\ sleepI' = sleepI /\ probeErrors' = TRUE
    /\ lateProbe' = (lateProbe \/ monObserved)
    /\ UNCHANGED <<bufVars, perfVars, monFrame, monObserved>>

\* lines 89-92: one pass of the for loop: sleep 1/100 s, break if the event is set
MonSleep ==
    /\ ProcessAlive
    /\ monPc = "sleep"
    /\ sleepI < SleepSlices
    /\ IF event
       THEN monPc' = "while" /\ sleepI' = sleepI /\ monObserved' = TRUE
       ELSE monPc' = monPc /\ sleepI' = sleepI + 1 /\ monObserved' = monObserved
    /\ UNCHANGED <<bufVars, perfVars, monFrame, lateProbe, probeErrors>>

\* line 89: the for loop is exhausted, back to the while test
MonForEnd ==
    /\ ProcessAlive
    /\ monPc = "sleep"
    /\ sleepI = SleepSlices
    /\ monPc' = "while"
    /\ UNCHANGED <<bufVars, perfVars, monFrame, sleepI, monObserved, lateProbe, probeErrors>>

Monitor == MonWhile \/ MonProbe \/ MonSleep \/ MonForEnd

Filler == FillValidate \/ FillStart \/ FillOpenCoarse \/ FillCoarseCheck
            \/ FillCoarseWrite \/ FillOpenFine \/ FillFineCheck \/ FillFineWrite
            \/ FillExcept \/ FillFinally \/ FillAfter

NextFill == Filler \/ OtherProcess \/ Monitor

\* the free space the volume may have when a buffer of length n is handed to the
\* filler: up to MaxFreeHalfMb half-MiB, a few KiB, and at most MaxCoarse buffers
FreeSpaces(n) ==
    {f \in {(1024 * k) \div KiB : k \in 0..3} \cup {HalfMb * k : k \in 1..MaxFreeHalfMb} :
        n = 0 \/ f \div n <= MaxCoarse}

InitFill ==
    /\ BufIdle /\ PerfIdle
    /\ pc = "fill_validate"
    /\ exc = "none"
    /\ caller = "none"
    /\ args = NoArgs
    /\ dirsCreated = FALSE
    /\ fileTouched = FALSE
    /\ byte_array_bytes \in BufferLengths
    /\ duration = DURATION /\ iterations = ITERATIONS
    /\ now = 0 /\ start = 0 /\ end = 0 /\ iteration = 0
    /\ fileSize = 0 /\ sizeBefore = 0
    /\ original_size = 0 /\ bytes_written = 0 /\ elapsed = 0
    /\ writes = 0
    /\ free \in FreeSpaces(byte_array_bytes)
    /\ otherBudget \in {0, MaxOtherHalfMb}
    /\ lastFree = 0 /\ i = 0
    /\ pending = "none" /\ how = "none"
    /\ coarseWrites = 0 /\ fineWrites = 0 /\ fineBroke = FALSE
    /\ event = FALSE /\ monPc = "not_started" /\ sleepI = 0
    /\ monObserved = FALSE /\ lateProbe = FALSE /\ probeErrors = FALSE

SpecFill == InitFill /\ [][NextFill]_vars

\* the filler on a volume that nothing else writes to: any of the volumes of
\* InitFill, or the one with 10 MiB free that is handed a buffer of 4 MiB
InitFillAlone ==
    /\ BufIdle /\ PerfIdle
    /\ pc = "fill_validate"
    /\ exc = "none"
    /\ caller = "none"
    /\ args = NoArgs
    /\ dirsCreated = FALSE
    /\ fileTouched = FALSE
    /\ \/ byte_array_bytes \in BufferLengths /\ free \in FreeSpaces(byte_array_bytes)
       \/ byte_array_bytes = 4 * one_mb_bytes /\ free = 10 * one_mb_bytes
    /\ duration = DURATION /\ iterations = ITERATIONS
    /\ now = 0 /\ start = 0 /\ end = 0 /\ iteration = 0
    /\ fileSize = 0 /\ sizeBefore = 0
    /\ original_size = 0 /\ bytes_written = 0 /\ elapsed = 0
    /\ writes = 0
    /\ otherBudget = 0
    /\ lastFree = 0 /\ i = 0
    /\ pending = "none" /\ how = "none"
    /\ coarseWrites = 0 /\ fineWrites = 0 /\ fineBroke = FALSE
    /\ event = FALSE /\ monPc = "not_started" /\ sleepI = 0
    /\ monObserved = FALSE /\ lateProbe = FALSE /\ probeErrors = FALSE

NextFillAlone == Filler \/ Monitor

SpecFillAlone == InitFillAlone /\ [][NextFillAlone]_vars

\* the monitor thread is scheduled fairly, and so is the filler
FairSpecFill == SpecFill /\ WF_vars(Monitor) /\ WF_vars(Filler)

(***************************************************************************)
(* main: validation of the parsed arguments and dispatch                   *)
(***************************************************************************)
\* create_bytearray (lines 63-68) fails for a constant fill that is no byte:
\* bytearray() raises ValueError for a value outside range(256)
NotAByte(f) == f # FILL /\ f \notin 0..255

\* len(create_bytearray_killobytes(count, fill)): count blocks of 1024 bytes
KillobytesLength(n) == IF n > 0 THEN (1024 * n) \div KiB ELSE 0

\* line 276: validate_kwargs(**vars(args))
MainValidate ==
    /\ pc = "main_validate"
    /\ LET e == validate_kwargs(args.operation, args.fill, args.size,
                                args.duration, args.iterations) IN
         IF e = "none"
         THEN pc' = "main_dispatch" /\ dirsCreated' = TRUE /\ exc' = exc
         ELSE pc' = "raised" /\ exc' = e /\ dirsCreated' = dirsCreated
    /\ UNCHANGED <<bufVars, perfVars, caller, args, fileTouched, wcVars, fillVars>>

\* lines 279-283: perf and perf+fill call create_byte_array_high_throughput
MainPerf ==
    /\ pc = "main_dispatch"
    /\ args.operation \in {"perf", "perf+fill"}
    /\ pc' = "perf_validate"
    /\ caller' = "main"
    /\ UNCHANGED <<bufVars, perfVars, exc, args, dirsCreated, fileTouched, wcVars, fillVars>>

\* lines 284-287: fill creates the buffer and calls write_byte_array_contiguously
\* on a volume with some free space
MainFill ==
    /\ pc = "main_dispatch"
    /\ args.operation = "fill"
    /\ IF NotAByte(args.fill)
       THEN /\ pc' = "raised" /\ exc' = "ValueError"
            /\ UNCHANGED <<caller, byte_array_bytes, free, otherBudget>>
       ELSE /\ byte_array_bytes' = KillobytesLength(args.size)
            /\ pc' = "fill_validate"
            /\ caller' = "main"
            /\ exc' = exc
            /\ free' \in FreeSpaces(byte_array_bytes')
            /\ otherBudget' \in {0, MaxOtherHalfMb}
    /\ UNCHANGED <<bufVars, perfVars, args, dirsCreated, fileTouched, wcLocals, fileSize, fillerLocals,
                   event, monVars>>

\* lines 284-289: loop creates the buffer and calls write_byte_array_continuously
MainLoop ==
    /\ pc = "main_dispatch"
    /\ args.operation = "loop"
    /\ IF NotAByte(args.fill)
       THEN /\ pc' = "raised" /\ exc' = "ValueError"
            /\ UNCHANGED <<caller, byte_array_bytes, duration, iterations>>
       ELSE /\ byte_array_bytes' = KillobytesLength(args.size)
            /\ pc' = "wc_validate"
            /\ caller' = "main"
            /\ exc' = exc
            /\ duration' = args.duration
            /\ iterations' = args.iterations
    /\ UNCHANGED <<bufVars, perfVars, args, dirsCreated, fileTouched, now, start, end, iteration,
                   fileSize, original_size, bytes_written, elapsed, writes,
                   sizeBefore, fillVars>>

\* line 204: create_byte_array_high_throughput validates its arguments first
PerfValidate ==
    /\ pc = "perf_validate"
    /\ LET e == validate_kwargs("perf", args.fill, SIZE, DURATION, ITERATIONS) IN
         IF e = "none"
         THEN pc' = "perf_sweep" /\ dirsCreated' = TRUE /\ exc' = exc
         ELSE pc' = "raised" /\ exc' = e /\ dirsCreated' = dirsCreated
    /\ UNCHANGED <<bufVars, perfVars, caller, args, fileTouched, wcVars, fillVars>>

\* line 290: the operation has returned
MainDone ==
    /\ pc = "main_done"
    /\ pc' = "exited"
    /\ UNCHANGED <<bufVars, perfVars, exc, caller, args, dirsCreated, fileTouched, wcVars, fillVars>>

NextMain == MainValidate \/ MainPerf \/ MainFill \/ MainLoop \/ PerfValidate
              \/ MainDone \/ NextLoop \/ NextFill

\* the values a command line, or a direct call of validate_kwargs, may carry
Fills == {-2, -1, 255, 256, 300}
Sizes == {0, 1, 512 * MaxBufHalfMb}
Durations == -1..MaxDuration
IterationBounds == -1..MaxIterations

\* lines 233-275: the namespace argparse builds; an option a subcommand does not
\* define is absent, so validate_kwargs sees its default
MainArgs ==
    {a \in [operation : OPERATIONS \cup {"bogus"}, fill : Fills, size : Sizes,
            duration : Durations \cup {DURATION},
            iterations : IterationBounds \cup {ITERATIONS}] :
        /\ a.operation \in {"perf", "perf+fill", "bogus"} => a.size = SIZE
        /\ a.operation # "loop" =>
              (a.duration = DURATION /\ a.iterations = ITERATIONS)
        /\ a.operation = "loop" =>
              (a.duration \in Durations /\ a.iterations \in IterationBounds)}

InitMain ==
    /\ BufIdle /\ PerfIdle
    /\ pc = "main_validate"
    /\ exc = "none"
    /\ caller = "none"
    /\ args \in MainArgs
    /\ dirsCreated = FALSE
    /\ fileTouched = FALSE
    /\ byte_array_bytes = 0
    /\ duration = DURATION /\ iterations = ITERATIONS
    /\ now = 0 /\ start = 0 /\ end = 0 /\ iteration = 0
    /\ fileSize \in {0, 1024 \div KiB}
    /\ sizeBefore = fileSize
    /\ original_size = 0 /\ bytes_written = 0 /\ elapsed = 0
    /\ writes = 0
    /\ FillIdle

SpecMain == InitMain /\ [][NextMain]_vars

(***************************************************************************)
(* create_bytearray and create_bytearray_killobytes                        *)
(***************************************************************************)
\* line 65: the byte random.randint(0, 255) returns for position k of the
\* sample block s
RandomByte(s, k) == ((s + 1) * k) % 256

\* lines 63-68: the n bytes of create_bytearray(n, f), random ones when f is FILL
create_bytearray(n, f, s) ==
    [k \in 1..n |-> IF f = FILL THEN RandomByte(s, k) ELSE f]

\* line 80: copy.deepcopy yields a new bytearray with the same bytes
deepcopy(b) == [k \in 1..Len(b) |-> b[k]]

\* lines 76-78: killobyte = create_bytearray(1024, fill), which raises ValueError
\* for a constant fill that is no byte; killobytes_array = bytearray()
KbBlock ==
    /\ pc = "kb_block"
    /\ IF NotAByte(fill)
       THEN /\ pc' = "raised" /\ exc' = "ValueError"
            /\ UNCHANGED <<killobyte, killobytes_array>>
       ELSE /\ \E s \in (IF fill = FILL THEN 0..MaxSeed ELSE {0}) :
                 killobyte' = create_bytearray(1024, fill, s)
            /\ killobytes_array' = <<>>
            /\ pc' = "kb_extend" /\ exc' = exc
    /\ copies' = 0
    /\ UNCHANGED <<caller, fileTouched, wcVars, mainVars, fillVars, perfVars,
                   count, fill>>

\* a slip of lines 79-80: every pass appends a block created anew
KbExtendFresh ==
    /\ pc = "kb_extend"
    /\ copies < count
    /\ \E s \in (IF fill = FILL THEN 0..MaxSeed ELSE {0}) :
          killobytes_array' = killobytes_array \o create_bytearray(1024, fill, s)
    /\ copies' = copies + 1
    /\ UNCHANGED <<pc, exc, caller, fileTouched, wcVars, mainVars, fillVars,
                   perfVars, count, fill, killobyte>>

\* lines 79-80: one pass of the for loop over range(count)
KbExtend ==
    /\ pc = "kb_extend"
    /\ copies < count
    /\ killobytes_array' = killobytes_array \o deepcopy(killobyte)
    /\ copies' = copies + 1
    /\ UNCHANGED <<pc, exc, caller, fileTouched, wcVars, mainVars, fillVars,
                   perfVars, count, fill, killobyte>>

\* lines 79, 81-82: range(count) is exhausted (at once when count <= 0): return
KbReturn ==
    /\ pc = "kb_extend"
    /\ copies >= count
    /\ Return
    /\ UNCHANGED <<exc, caller, fileTouched, wcVars, mainVars, fillVars, perfVars,
                   bufVars>>

NextBuf == KbBlock \/ KbExtend \/ KbReturn

\* the fills a direct call may pass
BufFills == {-2, -1, 0, 1, 255, 256}

InitBuf ==
    /\ pc = "kb_block"
    /\ exc = "none"
    /\ caller = "none"
    /\ args = NoArgs
    /\ dirsCreated = FALSE
    /\ fileTouched = FALSE
    /\ byte_array_bytes = 0
    /\ duration = DURATION /\ iterations = ITERATIONS
    /\ now = 0 /\ start = 0 /\ end = 0 /\ iteration = 0
    /\ fileSize = 0 /\ sizeBefore = 0
    /\ original_size = 0 /\ bytes_written = 0 /\ elapsed = 0
    /\ writes = 0
    /\ FillIdle /\ PerfIdle
    /\ count \in -1..MaxBlocks
    /\ fill \in BufFills
    /\ killobyte = <<>> /\ killobytes_array = <<>> /\ copies = 0

SpecBuf == InitBuf /\ [][NextBuf]_vars

(***************************************************************************)
(* create_byte_array_high_throughput                                       *)
(***************************************************************************)
\* line 210
killobytes_base == <<1, 4, 32, 128>>

\* [m * ele for ele in s]
Scaled(s, m) == [j \in 1..Len(s) |-> m * s[j]]

\* lines 210-212: the list after the two extend calls
killobytes_list ==
    LET l1 == killobytes_base
        l2 == l1 \o Scaled(l1, 1024)
    IN  l2 \o (Scaled(l2, 2) \o Scaled(l2, 3))

\* sorted(s), for a list of integers
RECURSIVE sorted(_)
sorted(s) ==
    IF s = <<>> THEN <<>>
    ELSE LET m == CHOOSE j \in 1..Len(s) : \A k \in 1..Len(s) : s[j] <= s[k]
         IN  <<s[m]>> \o sorted(SubSeq(s, 1, m - 1) \o SubSeq(s, m + 1, Len(s)))

\* a slip of line 213: the list is taken as built
PerfScheduleUnsorted == killobytes_list

\* line 213: the candidates in the order the for loop takes them
PerfSchedule == sorted(killobytes_list)

\* a rate is the pair <<amount written, elapsed time>>, elapsed > 0; line 217
\* scales the amount to MiB, alike for every row
RateGreaterOrEqual(a, b) == a[1] * b[2] >= b[1] * a[2]

\* line 219: rate > sweetspot_rate
RateGreater(a, b) == a[1] * b[2] > b[1] * a[2]

\* lines 206-212: the empty table, the initial sweetspot and the list
PerfStart ==
    /\ pc = "perf_sweep"
    /\ rows' = <<>>
    /\ sweetspot_bytearray' = 0
    /\ sweetspot_killobytes' = 0
    /\ sweetspot_rate' = <<0, 1>>
    /\ idx' = 0
    /\ pc' = "perf_for"
    /\ UNCHANGED <<exc, caller, fileTouched, wcVars, mainVars, fillVars, bufVars,
                   killobytes, pace, paceChanges, perfCaller>>

\* lines 213-216: the for loop takes the next candidate, creates its buffer
\* (ValueError for a fill that is no byte) and calls
\* write_byte_array_continuously with the default duration and iterations;
\* the clock may change its pace for this measurement
PerfFor ==
    /\ pc = "perf_for"
    /\ idx < Len(PerfSchedule)
    /\ idx' = idx + 1
    /\ killobytes' = PerfSchedule[idx + 1]
    /\ IF NotAByte(args.fill)
       THEN /\ pc' = "raised" /\ exc' = "ValueError"
            /\ UNCHANGED <<caller, perfCaller, byte_array_bytes, duration, iterations,
                           writes, sizeBefore, pace, paceChanges>>
       ELSE /\ byte_array_bytes' = KillobytesLength(killobytes')
            /\ duration' = DURATION
            /\ iterations' = ITERATIONS
            /\ writes' = 0
            /\ sizeBefore' = fileSize
            /\ perfCaller' = caller
            /\ caller' = "perf"
            /\ pc' = "wc_validate"
            /\ exc' = exc
            /\ \E p \in 1..MaxPace :
                  /\ pace' = p
                  /\ \/ p = pace /\ paceChanges' = paceChanges
                     \/ /\ p # pace /\ paceChanges < MaxPaceChanges
                        /\ paceChanges' = paceChanges + 1
    /\ UNCHANGED <<fileTouched, mainVars, fillVars, bufVars, now, start, end,
                   iteration, fileSize, original_size, bytes_written, elapsed,
                   rows, sweetspot_bytearray, sweetspot_killobytes, sweetspot_rate>>

\* line 213: the list is exhausted
PerfForEnd ==
    /\ pc = "perf_for"
    /\ idx >= Len(PerfSchedule)
    /\ pc' = "perf_save"
    /\ UNCHANGED <<exc, caller, fileTouched, wcVars, mainVars, fillVars, bufVars,
                   perfVars>>

\* lines 216-225: the writer has returned: the rate (a division by elapsed), the
\* update of the sweetspot on a strictly greater rate, and the row
PerfRate ==
    /\ pc = "perf_rate"
    /\ IF elapsed = 0
       THEN /\ pc' = "raised" /\ exc' = "ZeroDivisionError"
            /\ UNCHANGED <<caller, rows, sweetspot_bytearray, sweetspot_killobytes,
                           sweetspot_rate>>
       ELSE LET rate == <<bytes_written, elapsed>> IN
            /\ IF RateGreater(rate, sweetspot_rate)
               THEN /\ sweetspot_rate' = rate
                    /\ sweetspot_killobytes' = killobytes
                    /\ sweetspot_bytearray' = byte_array_bytes
               ELSE UNCHANGED <<sweetspot_rate, sweetspot_killobytes,
                                sweetspot_bytearray>>
            /\ rows' = Append(rows, [kb |-> killobytes, mb |-> <<killobytes, 1024>>,
                                     rate |-> rate, elapsed |-> elapsed,
                                     iteration |-> iteration])
            /\ caller' = perfCaller
            /\ pc' = "perf_for" /\ exc' = exc
    /\ UNCHANGED <<fileTouched, wcVars, mainVars, fillVars, bufVars, idx,
                   killobytes, pace, paceChanges, perfCaller>>

\* lines 226-230: the table is written to perf_filepath (OSError when that
\* fails) and the sweetspot buffer is returned
PerfSave ==
    /\ pc = "perf_save"
    /\ \/ Return /\ exc' = exc
       \/ pc' = "raised" /\ exc' = "OSError"
    /\ UNCHANGED <<caller, fileTouched, wcVars, mainVars, fillVars, bufVars,
                   perfVars>>

NextPerf == PerfValidate \/ PerfStart \/ PerfFor \/ PerfForEnd \/ PerfRate
              \/ PerfSave \/ NextLoop

\* the fills a direct call of the benchmark is given: the default and one that
\* is no byte
PerfFills == {FILL, 256}

InitPerf ==
    /\ pc = "perf_validate"
    /\ exc = "none"
    /\ caller = "none"
    /\ args \in {[NoArgs EXCEPT !.fill = f] : f \in PerfFills}
    /\ dirsCreated = FALSE
    /\ fileTouched = FALSE
    /\ byte_array_bytes = 0
    /\ duration = DURATION /\ iterations = ITERATIONS
    /\ now = 0 /\ start = 0 /\ end = 0 /\ iteration = 0
    /\ fileSize \in {0, 1024 \div KiB}
    /\ sizeBefore = fileSize
    /\ original_size = 0 /\ bytes_written = 0 /\ elapsed = 0
    /\ writes = 0
    /\ FillIdle /\ BufIdle
    /\ rows = <<>> /\ sweetspot_bytearray = 0 /\ sweetspot_killobytes = 0
    /\ sweetspot_rate = <<0, 1>> /\ idx = 0 /\ killobytes = 0
    /\ pace \in 1..MaxPace /\ paceChanges = 0 /\ perfCaller = "none"

SpecPerf == InitPerf /\ [][NextPerf]_vars

(***************************************************************************)
(* Properties of write_byte_array_continuously, checked under SpecLoop.    *)
(***************************************************************************)
WcLoopExited == pc \in {"wc_end", "wc_result", "returned"}
                  \/ (pc = "raised" /\ exc = "ZeroDivisionError")

C2_ZeroBoundsReturnZero ==
    (duration = 0 /\ iterations = 0 /\ pc \in {"returned", "raised"})
        => (pc = "returned" /\ iteration = 0 /\ bytes_written = 0 /\ writes = 0)

ReturnedElapsedPositive ==
    (pc = "returned" /\ iteration > 0) => elapsed > 0

\* C16 as stated, for a buffer that is not empty: a run that wrote something
\* ends with a result whose elapsed time is > 0, so that its throughput
\* bytes_written / elapsed is defined, whatever the clock read between start
\* and end: no such run ends in a division by zero.
C16_ThroughputDefined ==
    (iteration > 0 /\ byte_array_bytes > 0
        /\ (pc = "returned" \/ exc = "ZeroDivisionError"))
        => (pc = "returned" /\ elapsed > 0)

(***************************************************************************)
(* Properties of write_byte_array_contiguously and of the monitor, checked *)
(* under SpecFill.                                                         *)
(***************************************************************************)
CoarsePhase == {"fill_open_coarse", "fill_coarse_check", "fill_coarse_write"}
FinePhase == {"fill_open_fine", "fill_fine_check", "fill_fine_write"}
FillLeft == {"fill_after", "returned", "raised"}
MonRunning == {"while", "probe", "sleep"}

\* C5: a full-buffer write is issued only after a probe that returned more than
\* len(byte_array) and only before the fine phase; a slice is written only after
\* a probe that returned more than 1 MiB; the phases follow one another in the
\* order coarse, fine, done; and once a fine check has failed no further check
\* or write is made.
C5_NoWriteThatCannotFit ==
    /\ [](/\ pc = "fill_coarse_write" =>
                (lastFree > byte_array_bytes /\ fineWrites = 0 /\ ~fineBroke)
          /\ pc = "fill_fine_write" => (lastFree > one_mb_bytes /\ ~fineBroke)
          /\ fineBroke => pc \in {"fill_finally"} \cup FillLeft)
    /\ [][/\ pc \in FinePhase => pc' \notin CoarsePhase
          /\ pc \in {"fill_except", "fill_finally"} \cup FillLeft
                => pc' \notin CoarsePhase \cup FinePhase]_vars

C5_Witness ==
    /\ pc = "returned" /\ how = "normal"
    /\ coarseWrites > 0 /\ fineWrites > 0 /\ fineBroke
    /\ i < byte_array_bytes \div one_mb_bytes

\* C6 as stated, for a buffer that is not empty: after the filler has completed,
\* free space is strictly less than len(byte_array).
C6_FreeBelowBufferLength ==
    (how = "normal" /\ byte_array_bytes > 0) => free < byte_array_bytes

\* C6, amended: after the filler has left its write phases normally, free space
\* is at most len(byte_array) (nothing frees space during the fill).
C6_FreeAtMostBufferLength ==
    how = "normal" => free <= byte_array_bytes

C6_Witness ==
    /\ pc = "returned" /\ how = "normal"
    /\ byte_array_bytes > 0
    /\ free = byte_array_bytes

\* C7: the monitor thread is started before the data file is opened or written,
\* and whenever the filler has left its try statement with a started monitor
\* (normally, after KeyboardInterrupt, OSError or any other exception of the
\* write phases) the event is set.
C7_MonitorFirstEventAlwaysSet ==
    /\ (fileTouched \/ coarseWrites > 0 \/ fineWrites > 0
            \/ pc \in CoarsePhase \cup FinePhase) => monPc # "not_started"
    /\ (pc \in FillLeft /\ monPc # "not_started") => event

C7_Witness ==
    /\ pc = "raised" /\ exc = "Other" /\ how = "Other"
    /\ coarseWrites > 0
    /\ monPc # "not_started" /\ event

\* the event is set only once the filler has left its try statement: no state
\* has it set during the coarse or the fine phase
EventOnlyAfterTry == event => pc \in FillLeft \cup {"main_done", "exited"}

\* C9: while the event is unset a started monitor keeps running and probing,
\* and it makes no probe after it has read the event as set.
C9_MonitorRunsUntilEvent ==
    /\ (monPc # "not_started" /\ ~event) => monPc \in MonRunning
    /\ ~lateProbe

\* once the event is set the monitor thread ends (fair scheduling)
MonitorStops == event ~> (monPc \notin MonRunning)

\* C10: a probe error is not fatal to the monitor: after one, the monitor is
\* still running as long as the event is unset.
C10_ProbeErrorNotFatal ==
    (probeErrors /\ ~event) => monPc \in MonRunning

\* C11 as stated: once KeyboardInterrupt or OSError has been raised in the coarse
\* or the fine phase, no further write is made and the function returns
\* normally: control is in the finally clause, after it, or back in the caller,
\* and no exception leaves the function.
C11_InterruptRecoveredLocally ==
    how \in {"KeyboardInterrupt", "OSError"}
        => (pc \in {"fill_finally", "fill_after", "returned"} /\ exc = "none")

\* C17: the event is one-shot: creating it leaves it unset, a set event is never
\* cleared, and the only step that sets it is the filler's finally clause (no
\* step of the monitor changes it).
C17_EventOneShot ==
    /\ [][pc = "fill_start" => ~event']_vars
    /\ [][event => event']_vars
    /\ [][(~event /\ event') =>
             (pc = "fill_finally" /\ pc' \in {"fill_after", "raised"})]_vars
    /\ [][Monitor => event' = event]_vars

C17_Witness ==
    /\ pc = "returned" /\ event
    /\ monObserved /\ monPc = "exited"

\* the number of full-buffer writes needed to bring f0 free bytes down to at
\* most n
NeededCoarse(f0, n) ==
    CHOOSE k \in 0..MaxCount :
        /\ f0 - k * n <= n
        /\ \A j \in 0..(k - 1) : f0 - j * n > n

\* C18: when nothing else uses the volume and the filler completes normally,
\* the free space left is at most 1 MiB and the number of full-buffer writes
\* is exactly the number needed to bring the initial free space (what is left
\* plus what the file received) down to at most len(byte_array); with 10 MiB
\* free and a 4 MiB buffer that is 2 coarse writes, 1 fine write, 1 MiB left.
C18_NormalCompletion ==
    how = "normal" =>
        /\ free <= one_mb_bytes
        /\ coarseWrites = NeededCoarse(free + fileSize, byte_array_bytes)
        /\ (byte_array_bytes = 4 * one_mb_bytes /\ free + fileSize = 10 * one_mb_bytes)
              => (coarseWrites = 2 /\ fineWrites = 1 /\ free = one_mb_bytes)

C18_Witness ==
    /\ pc = "returned" /\ how = "normal"
    /\ byte_array_bytes = 4 * one_mb_bytes
    /\ fileSize = 9 * one_mb_bytes
    /\ coarseWrites = 2 /\ fineWrites = 1 /\ free = one_mb_bytes

\* C19 as stated: the filler always terminates, whatever buffer (a zero-length
\* one included) and whatever finite free space it is given, and the fine phase
\* writes at most len(byte_array) div 1 MiB slices.
C19_FillerTerminates ==
    /\ [](fineWrites <= byte_array_bytes \div one_mb_bytes)
    /\ <>(pc \in FillLeft)

(***************************************************************************)
(* Properties of create_bytearray_killobytes, checked under SpecBuf.       *)
(***************************************************************************)
\* C14: for count >= 0 the returned buffer has exactly count * 1024 bytes; for
\* a constant fill in 0..255 every byte equals fill; for fill = -1 the content
\* repeats with period 1024, being count copies of the one block created.
C14_BlocksOfFill ==
    (pc = "returned" /\ count >= 0) =>
        /\ Len(killobytes_array) = count * 1024
        /\ Len(killobytes_array) \div KiB = KillobytesLength(count)
        /\ fill \in 0..255 =>
              \A k \in 1..Len(killobytes_array) : killobytes_array[k] = fill
        /\ fill = FILL =>
              /\ \A k \in 1..(Len(killobytes_array) - 1024) :
                    killobytes_array[k] = killobytes_array[k + 1024]
              /\ \A k \in 1..Len(killobytes_array) :
                    killobytes_array[k] = killobyte[((k - 1) % 1024) + 1]

C14_Witness ==
    /\ pc = "returned"
    /\ count = 2 /\ fill = FILL
    /\ Len(killobytes_array) = 2048
    /\ killobytes_array[1] # killobytes_array[2]
    /\ killobytes_array[1025] = killobytes_array[1]

\* C15 as stated: whenever count < 0, or fill is neither -1 nor in 0..255, the
\* call fails with ValueError and returns no buffer.
C15_InvalidArgumentsFail ==
    ((count < 0 \/ NotAByte(fill)) /\ pc \in {"returned", "raised"})
        => (pc = "raised" /\ exc = "ValueError")

(***************************************************************************)
(* Properties of create_byte_array_high_throughput, checked under SpecPerf *)
(***************************************************************************)
\* the candidate sizes: 1, 4, 32, 128, each times 1024, then twice and three
\* times all of those
ScheduledSizes ==
    LET base == {1, 4, 32, 128}
        both == base \cup {1024 * x : x \in base}
    IN  both \cup {2 * x : x \in both} \cup {3 * x : x \in both}

WcLabels == {"wc_validate", "wc_truncate", "wc_open", "wc_cond", "wc_write",
             "wc_end", "wc_result"}

\* C12: the table has one row per scheduled candidate size, in ascending order
\* of kb; while a candidate is measured the rows of all earlier candidates, and
\* no other, are in the table; and no row has fewer iterations than the bound
\* the writer was given.
C12_OneRowPerCandidate ==
    /\ \A j \in 1..Len(rows) :
          rows[j].kb \in ScheduledSizes /\ rows[j].iteration >= ITERATIONS
    /\ \A j \in 1..(Len(rows) - 1) : rows[j].kb < rows[j + 1].kb
    /\ (caller = "perf" /\ pc \in WcLabels \cup {"perf_rate"}) =>
          /\ Len(rows) = idx - 1
          /\ \A j \in 1..Len(rows) : rows[j].kb < killobytes
          /\ iterations = ITERATIONS
    /\ pc = "perf_for" => Len(rows) = idx
    /\ pc \in {"perf_save", "returned"} =>
          /\ Len(rows) = Cardinality(ScheduledSizes)
          /\ {rows[j].kb : j \in 1..Len(rows)} = ScheduledSizes

C12_Witness ==
    /\ pc = "returned"
    /\ Len(rows) = 24
    /\ rows[1].kb = 1 /\ rows[24].kb = 393216
    /\ rows[1].elapsed # rows[24].elapsed

\* rate a is faster than rate b
Faster(a, b) == a[1] * b[2] > b[1] * a[2]

\* C13: after every measurement, and when the function returns, the sweetspot
\* is a row of maximum rate, every earlier row is strictly slower than it, and
\* the buffer kept is the one of that row's size.
C13_SweetspotIsEarliestMax ==
    (pc \in {"perf_for", "perf_save", "returned"} /\ rows # <<>>) =>
        \E j \in 1..Len(rows) :
            /\ sweetspot_killobytes = rows[j].kb
            /\ sweetspot_bytearray = KillobytesLength(rows[j].kb)
            /\ sweetspot_rate = rows[j].rate
            /\ \A m \in 1..Len(rows) : ~Faster(rows[m].rate, rows[j].rate)
            /\ \A m \in 1..(j - 1) : Faster(rows[j].rate, rows[m].rate)

C13_Witness ==
    /\ pc = "returned"
    /\ \E j \in 1..Len(rows) : \E m \in (j + 1)..Len(rows) :
          /\ sweetspot_killobytes = rows[j].kb
          /\ ~Faster(rows[m].rate, rows[j].rate)
          /\ ~Faster(rows[j].rate, rows[m].rate)

(***************************************************************************)
(* Properties of validate_kwargs and main, checked under SpecMain.         *)
(***************************************************************************)
\* the configurations the validation is to reject
InvalidConfig(a) ==
    \/ a.operation \notin OPERATIONS
    \/ (a.fill # -1 /\ a.fill \notin 0..255)
    \/ a.size < 1
    \/ a.duration < 0
    \/ a.iterations < 0

\* C4: for every invalid configuration validate_kwargs raises, before any
\* directory is created and before the data file is created, truncated or
\* written: once main is past line 276 it has raised and nothing was created.
C4_InvalidConfigFailsFast ==
    (InvalidConfig(args) /\ pc # "main_validate")
        => (pc = "raised" /\ ~dirsCreated /\ ~fileTouched)

=============================================================================
